---- MODULE Spec2Model ----
(***************************************************************************)
(* Model of the global toast queue of src/components/Message/index.tsx:    *)
(* window.onShow creates a container, mounts a root in it, pushes a record *)
(* on the module-level queue and schedules a one-shot 2000 ms timer whose  *)
(* callback unmounts the root, detaches the container and splices the      *)
(* record out of the queue.  The handlers are modelled as atomic steps     *)
(* (Spec, AnyOrderSpec) and statement by statement (StepSpec).             *)
(* Model of the ["todos"] / ["todo", id] queries and of updateTodoMutation *)
(* of src/components/ReactQuery/index.tsx (QuerySpec, RollbackSpec), and   *)
(* of addTodoMutation next to them (AddSpec).                              *)
(* Model of the interval timer of src/components/Ref/index.tsx (RefSpec,   *)
(* RefFairSpec) and of the memoized cart total of                          *)
(* src/components/Control/index.tsx (CartSpec).                            *)
(***************************************************************************)
EXTENDS Integers, Sequences, FiniteSets, TLC

\* ------------------------------------------------------------------ bounds
MaxCalls == 3        \* number of window.onShow() calls explored
TickMs == 500        \* granularity of the clock, in ms
MaxTime == 3000      \* the clock stops here once no timer is pending
MaxDetailIds == 1    \* todo ids whose ["todo", id] query is explored
MaxPriorTodos == 2   \* length of the cached lists the callbacks are applied to
MaxPresses == 5      \* presses of the start / end buttons of the Ref demo
MaxIntervalTicks == 3 \* interval callbacks of the Ref demo explored
MaxClicks == 3       \* clicks on the + / - buttons of the cart demo
MaxAdds == 1         \* todos addTodo returns

\* ------------------------------------------------------- program constants
StackHeight == 50    \* `${queue.length * 50}px`
Delay == 2000        \* setTimeout(..., 2000)

VARIABLES
  queue,      \* const queue: Item[]  (sequence of [msgContainer, root])
  body,       \* children of document.body created by onShow
  mounted,    \* roots that are rendered and not yet unmounted
  style,      \* msgContainer.style.top in px, per created container
  timers,     \* pending setTimeout callbacks: [c, deadline]
  now,        \* current time in ms
  calls,      \* number of onShow() calls made so far
  createdAt,  \* time of the onShow() call that created each container
  expired,    \* containers of the records spliced out, in order of removal
  running,    \* handler activations in progress (statement-level model)
  cache,      \* data of the ["todos"] query in the query cache
  todosQ,     \* fetch state of the ["todos"] query
  detailQ,    \* fetch state of the ["todo", id] queries, per id
  selectedId, \* const [selectedId, setSelectedId], 0 for null
  upd,        \* state of updateTodoMutation
  newTodoTitle, \* const [newTodoTitle, setNewTodoTitle]: the characters typed
  addM,       \* state of addTodoMutation
  added,      \* number of todos addTodo has returned
  timer,      \* Ref demo: timer.current, 0 for null
  intervals,  \* Ref demo: handles of the intervals that are active
  tState,     \* Ref demo: const [t, setT]
  handles,    \* Ref demo: number of setInterval calls made so far
  presses,    \* Ref demo: the buttons pressed so far, in order
  goods,      \* cart demo: const [goods, setGoods]
  goodsId,    \* cart demo: identity of the goods array (setGoods calls so far)
  search,     \* cart demo: const [search, setSearch]
  total,      \* cart demo: the value useMemo returned at the last render
  memoDeps,   \* cart demo: identity of goods at the last run of the memo callback
  computed    \* cart demo: number of runs of the memo callback

toastVars == <<queue, body, mounted, style, timers, now, calls, createdAt, expired>>

queryVars == <<cache, todosQ, detailQ, selectedId, upd>>

addVars == <<newTodoTitle, addM, added>>

refVars == <<timer, intervals, tState, handles, presses>>

cartVars == <<goods, goodsId, search, total, memoDeps, computed>>

\* the state of the components an operation of another component leaves alone
demoVars == <<addVars, refVars, cartVars>>

vars == <<toastVars, running, queryVars, demoVars>>

\* ----------------------------------------------------------- JS primitives
Undefined == [msgContainer |-> -1, root |-> -1]

\* interface Item { msgContainer; root }, root = createRoot(msgContainer)
Item(c) == [msgContainer |-> c, root |-> c]

Containers(q) == {q[i].msgContainer : i \in DOMAIN q}

\* mutant of CreateElement: an existing element is reused
CreateElementReuse(n) == 0

\* document.createElement("div"): a fresh element, identified by the number
\* of elements created before it
CreateElement(n) == n

\* mutant of Find: takes the last record instead of the matching one
FindLast(q, c) == IF q = <<>> THEN Undefined ELSE q[Len(q)]

\* queue.find((item) => item.msgContainer === msgContainer)
Find(q, c) ==
  IF \E i \in DOMAIN q : q[i].msgContainer = c
  THEN q[CHOOSE i \in DOMAIN q :
           /\ q[i].msgContainer = c
           /\ \A j \in DOMAIN q : q[j].msgContainer = c => i <= j]
  ELSE Undefined

\* mutant of IndexOf: one past the position of the item
IndexOfOffByOne(q, item) ==
  IF \E i \in DOMAIN q : q[i] = item
  THEN CHOOSE i \in DOMAIN q : q[i] = item /\ \A j \in DOMAIN q : q[j] = item => i <= j
  ELSE -1

\* queue.indexOf(item): 0-based index of the first occurrence, -1 if absent
IndexOf(q, item) ==
  IF \E i \in DOMAIN q : q[i] = item
  THEN (CHOOSE i \in DOMAIN q : q[i] = item /\ \A j \in DOMAIN q : q[j] = item => i <= j) - 1
  ELSE -1

\* mutant of Splice: removes the head of the queue, whatever the index
SpliceShift(q, start, deleteCount) == IF q = <<>> THEN q ELSE Tail(q)

\* mutant of Splice: removes nothing
SpliceNone(q, start, deleteCount) == q

\* mutant of Splice: removes the last record, as splice(-1, 1) does
SpliceLast(q, start, deleteCount) == SubSeq(q, 1, Len(q) - 1)

\* mutant of Splice: removes the record at start and the one after it
SpliceTwo(q, start, deleteCount) ==
  SubSeq(q, 1, start) \o SubSeq(q, start + deleteCount + 2, Len(q))

\* queue.splice(start, deleteCount): the array after the removal.  A negative
\* start counts from the end, a start beyond the end removes nothing.
Splice(q, start, deleteCount) ==
  LET len  == Len(q)
      from == IF start < 0
              THEN (IF len + start < 0 THEN 0 ELSE len + start)
              ELSE (IF start > len THEN len ELSE start)
      cnt  == IF deleteCount < 0 THEN 0
              ELSE IF deleteCount > len - from THEN len - from
              ELSE deleteCount
  IN  SubSeq(q, 1, from) \o SubSeq(q, from + cnt + 1, len)

\* mutant of Push: the record is dropped once the queue holds two records
PushCapped(q, item) == IF Len(q) >= 2 THEN q ELSE Append(q, item)

\* mutant of Push: the record is pushed twice
PushTwice(q, item) == Append(Append(q, item), item)

\* queue.push(item)
Push(q, item) == Append(q, item)

\* mutant of TopOffset: offset from the number of toasts ever created
TopOffsetEverCreated(q) == calls * StackHeight

\* mutant of TopOffset: offset taken after the push
TopOffsetAfterPush(q) == (Len(q) + 1) * StackHeight

\* queue.length * 50
TopOffset(q) == Len(q) * StackHeight

\* mutant of SetTop: the offset is written to every message container
SetTopAll(st, c, px) == [x \in DOMAIN st \cup {c} |-> px]

\* msgContainer.style.top = `${px}px`
SetTop(st, c, px) == [x \in DOMAIN st \cup {c} |-> IF x = c THEN px ELSE st[x]]

\* document.body.appendChild(msgContainer)
AppendChild(b, c) == b \cup {c}

\* mutant of RemoveChild: the container is left in the document
RemoveChildNoop(b, c) == b

\* document.body.removeChild(item.msgContainer)
RemoveChild(b, c) == b \ {c}

\* mutant of Deadline: the callback is scheduled without delay
DeadlineNoDelay(t) == t

\* setTimeout(cb, 2000) called at time t: cb runs no earlier than t + 2000
Deadline(t) == t + Delay

\* A timer may run once its deadline has passed and every timer registered
\* before it (all have the same delay) has run.
Due(t) ==
  /\ t \in timers
  /\ t.deadline <= now
  /\ \A u \in timers : u.c >= t.c

\* records of q that are no longer in r, as containers, in queue order
SplicedOut(q, r) ==
  LET gone == SelectSeq(q, LAMBDA it : \A i \in DOMAIN r : r[i] # it)
  IN  [i \in DOMAIN gone |-> gone[i].msgContainer]

\* ------------------------------------------------- ReactQuery component
\* cached data of a query: undefined, or an array of todos
NoData == [has |-> FALSE, data |-> <<>>]

Data(l) == [has |-> TRUE, data |-> l]

\* interface Todo { id; title; completed } plus the optimistic mark; the
\* title is fixed by the id and left out
Todo(id, completed, optimistic) ==
  [id |-> id, completed |-> completed, optimistic |-> optimistic]

\* the array fetchTodos resolves to
ServerTodos == <<Todo(1, FALSE, FALSE), Todo(2, FALSE, FALSE), Todo(3, TRUE, FALSE)>>

TodoIds == {ServerTodos[i].id : i \in DOMAIN ServerTodos}

\* a query option that is set to a value, or left out
Option(v) == [set |-> TRUE, value |-> v]

Unset == [set |-> FALSE, value |-> 0]

TodosRetry == 0      \* useQuery(["todos"]): retry: 0
GlobalRetry == 3     \* new QueryClient: defaultOptions.queries.retry: 3

TodosRetryOption == Option(TodosRetry)

\* useQuery(["todo", selectedId]) sets no retry option
DetailRetryOption == Unset

GlobalRetryOption == Option(GlobalRetry)

\* mutant of EffectiveRetry: the global default wins over the component
EffectiveRetryGlobalFirst(opt, global) == IF global.set THEN global.value ELSE opt.value

\* the options of a query are the client's defaults overridden by the
\* options passed to useQuery
EffectiveRetry(opt, global) == IF opt.set THEN opt.value ELSE global.value

\* a fetch starts with the first call of the queryFn and no failure counted;
\* an error of a query without data is cleared, a query with data keeps its
\* status until the result
StartFetch(q, hasData) ==
  [fetching |-> TRUE, failureCount |-> 0,
   isError |-> IF hasData THEN q.isError ELSE FALSE]

\* the queryFn resolves
FetchSucceeded(q) == [fetching |-> FALSE, failureCount |-> 0, isError |-> FALSE]

\* the queryFn rejects: the failure is counted; the queryFn is called again
\* while the failures before this one are fewer than the retry option,
\* otherwise the query enters the error state
FetchFailed(q, retry) ==
  IF q.failureCount < retry
  THEN [fetching |-> TRUE, failureCount |-> q.failureCount + 1, isError |-> q.isError]
  ELSE [fetching |-> FALSE, failureCount |-> q.failureCount + 1, isError |-> TRUE]

IdleQuery == [fetching |-> FALSE, failureCount |-> 0, isError |-> FALSE]

\* the todos whose detail query is explored
DetailIds == {id \in TodoIds : id <= MaxDetailIds}

\* handleOptimisticUpdate: { ...todo, completed: !todo.completed }
Toggled(todo) == [todo EXCEPT !.completed = ~@]

\* mutant of OptimisticWrite: every cached todo is marked optimistic
OptimisticWriteAll(old, newTodo) ==
  IF ~old.has
  THEN Data(<<newTodo>>)
  ELSE Data([i \in DOMAIN old.data |->
               IF old.data[i].id = newTodo.id
               THEN [newTodo EXCEPT !.optimistic = TRUE]
               ELSE [old.data[i] EXCEPT !.optimistic = TRUE]])

\* onMutate's setQueryData updater: (old) => !old ? [newTodo] : old.map(...)
OptimisticWrite(old, newTodo) ==
  IF ~old.has
  THEN Data(<<newTodo>>)
  ELSE Data([i \in DOMAIN old.data |->
               IF old.data[i].id = newTodo.id
               THEN [newTodo EXCEPT !.optimistic = TRUE]
               ELSE old.data[i]])

\* onError: if (context?.previousTodos) setQueryData(["todos"], previousTodos)
Rollback(current, previousTodos) ==
  IF previousTodos.has THEN previousTodos ELSE current

\* mutant of Invalidates: the invalidation sits in onSuccess
InvalidatesOnSuccess(callback) == callback = "onSuccess"

\* the callback of updateTodoMutation that calls invalidateQueries(["todos"])
Invalidates(callback) == callback = "onSettled"

\* invalidateQueries / refetch on the mounted ["todos"] query: a fetch
\* starts, replacing one in flight
Refetched(q, c, invalidated) == IF invalidated THEN StartFetch(q, c.has) ELSE q

IdleMutation ==
  [phase |-> "idle", variables |-> Todo(0, FALSE, FALSE),
   context |-> NoData, before |-> NoData, log |-> <<>>]

\* the new todo addTodo resolves to: { id: Date.now(), title, completed: false }
AddedTodo(id, title) ==
  [id |-> id, title |-> title, completed |-> FALSE, optimistic |-> FALSE]

\* Date.now() at the n-th successful addTodo: a timestamp, larger than the
\* ids of the server's todos and than the ids of the todos added before
DateNow(n) == Cardinality(TodoIds) + n + 1

\* the texts typed in the new-todo input, as sequences of characters:
\* empty, blank, and a letter with and without white space around it
Texts == {<<>>, <<" ">>, <<"a">>, <<" ", "a">>, <<"a", " ">>, <<" ", "a", " ">>}

RECURSIVE TrimStart(_)
TrimStart(s) == IF s # <<>> /\ Head(s) = " " THEN TrimStart(Tail(s)) ELSE s

RECURSIVE TrimEnd(_)
TrimEnd(s) ==
  IF s # <<>> /\ s[Len(s)] = " " THEN TrimEnd(SubSeq(s, 1, Len(s) - 1)) ELSE s

\* String.prototype.trim(): leading and trailing white space removed
Trim(s) == TrimEnd(TrimStart(s))

\* mutant of AddOnSuccess: the new todo is put in front
AddOnSuccessPrepend(oldTodos, newTodo) ==
  IF oldTodos.has THEN Data(<<newTodo>> \o oldTodos.data) ELSE Data(<<newTodo>>)

\* addTodoMutation.onSuccess's updater:
\* (oldTodos) => oldTodos ? [...oldTodos, newTodo] : [newTodo]
AddOnSuccess(oldTodos, newTodo) ==
  IF oldTodos.has THEN Data(Append(oldTodos.data, newTodo)) ELSE Data(<<newTodo>>)

IdleAdd == [status |-> "idle", variables |-> [title |-> <<>>]]

\* ------------------------------------------------------- Ref component
\* mutant of SetInterval: starting an interval stops the ones before it
SetIntervalReplacing(ivs, h) == {h}

\* setInterval(cb, 300) returns the handle h: the interval is active
SetInterval(ivs, h) == ivs \cup {h}

\* clearInterval(h)
ClearInterval(ivs, h) == ivs \ {h}

\* ------------------------------------------------------ cart component
Good(id, price, count) == [id |-> id, price |-> price, count |-> count]

\* useState([{ id: 1, price: 10, count: 1 }, ...]); the name is left out
InitialGoods == <<Good(1, 10, 1), Good(2, 20, 1), Good(3, 30, 1)>>

\* the values typed in the search box
SearchTexts == {"", "a", "ab"}

\* goods.reduce((total, item) => total + item.price * item.count, 0)
RECURSIVE Reduce(_, _)
Reduce(g, acc) ==
  IF g = <<>> THEN acc ELSE Reduce(Tail(g), acc + Head(g).price * Head(g).count)

\* goods.map((item) => item.id === id ? { ...item, count: item.count + d } : item)
MapCount(g, id, d) ==
  [i \in DOMAIN g |-> IF g[i].id = id THEN [g[i] EXCEPT !.count = @ + d] ELSE g[i]]

\* mutant of DepsChanged: the dependency array is empty
DepsChangedNever(prev, next) == FALSE

\* useMemo(fn, [goods]): the callback runs again when the goods array is
\* not the array of the last run (Object.is on the dependency)
DepsChanged(prev, next) == prev # next

\* ------------------------------------------------------------------ state
\* mutant of ToastInit: loading the module shows a toast
ToastInitShown ==
  /\ queue = <<Item(0)>>
  /\ body = {0}
  /\ mounted = {0}
  /\ style = SetTop(<<>>, 0, 0)
  /\ timers = {[c |-> 0, deadline |-> Deadline(0)]}
  /\ now = 0
  /\ calls = 0
  /\ createdAt = <<>>
  /\ expired = <<>>
  /\ running = {}

\* the module is loaded: the queue is empty and window.onShow is installed
ToastInit ==
  /\ queue = <<>>
  /\ body = {}
  /\ mounted = {}
  /\ style = <<>>
  /\ timers = {}
  /\ now = 0
  /\ calls = 0
  /\ createdAt = <<>>
  /\ expired = <<>>
  /\ running = {}

\* the ReactQuery component has mounted: the ["todos"] query is fetching,
\* nothing is selected, no mutation has run
QueryInit ==
  /\ cache = NoData
  /\ todosQ = StartFetch(IdleQuery, FALSE)
  /\ detailQ = [id \in DetailIds |-> [q |-> IdleQuery, hasData |-> FALSE]]
  /\ selectedId = 0
  /\ upd = IdleMutation

\* the ReactQuery component has mounted: the input is empty and
\* addTodoMutation is idle
AddInit ==
  /\ newTodoTitle = <<>>
  /\ addM = IdleAdd
  /\ added = 0

\* the Ref demo has mounted: useRef(null), useState(0), no interval started
RefInit ==
  /\ timer = 0
  /\ intervals = {}
  /\ tState = 0
  /\ handles = 0
  /\ presses = <<>>

\* the cart demo has rendered once: the memo callback has run on the
\* initial goods
CartInit ==
  /\ goods = InitialGoods
  /\ goodsId = 0
  /\ search = ""
  /\ total = Reduce(InitialGoods, 0)
  /\ memoDeps = 0
  /\ computed = 1

DemoInit == AddInit /\ RefInit /\ CartInit

Init == ToastInit /\ QueryInit /\ DemoInit

\* window.onShow = () => { ... }
OnShow ==
  /\ calls < MaxCalls
  /\ LET msgContainer == CreateElement(calls) IN
       /\ style' = SetTop(style, msgContainer, TopOffset(queue))
       /\ body' = AppendChild(body, msgContainer)
       /\ mounted' = mounted \cup {msgContainer}
       /\ queue' = Push(queue, Item(msgContainer))
       /\ timers' = timers \cup {[c |-> msgContainer, deadline |-> Deadline(now)]}
       /\ createdAt' = [x \in DOMAIN createdAt \cup {msgContainer} |->
                          IF x = msgContainer THEN now ELSE createdAt[x]]
  /\ calls' = calls + 1
  /\ UNCHANGED <<now, expired, running, queryVars, demoVars>>

\* body of the setTimeout callback of the onShow() call that created t.c
ExpiryCallback(t) ==
  /\ timers' = timers \ {t}
  /\ LET item == Find(queue, t.c) IN
       IF item = Undefined
       THEN \* item.root throws a TypeError: nothing else happens
            UNCHANGED <<queue, body, mounted, expired>>
       ELSE /\ mounted' = mounted \ {item.root}
            /\ IF item.msgContainer \in body
               THEN /\ body' = RemoveChild(body, item.msgContainer)
                    /\ queue' = Splice(queue, IndexOf(queue, item), 1)
                    /\ expired' = expired \o SplicedOut(queue, queue')
               ELSE \* removeChild throws NotFoundError after the unmount
                    UNCHANGED <<queue, body, expired>>
  /\ UNCHANGED <<style, now, calls, createdAt, running, queryVars, demoVars>>

\* the callback runs when the timer is due
Expire(t) == Due(t) /\ ExpiryCallback(t)

ExpireAny == \E t \in timers : Expire(t)

\* time passes
Tick ==
  /\ \/ now + TickMs <= MaxTime
     \/ \E t \in timers : t.deadline > now
  /\ now' = now + TickMs
  /\ UNCHANGED <<queue, body, mounted, style, timers, calls, createdAt, expired, running>>
  /\ UNCHANGED <<queryVars, demoVars>>

Next == OnShow \/ ExpireAny \/ Tick

Spec == Init /\ [][Next]_vars

\* timers whose deadline has passed do run, and time does not stop
FairSpec == Spec /\ WF_vars(Tick) /\ WF_vars(ExpireAny)

\* The same callbacks with the order among the elapsed timers left open: any
\* pending callback whose delay has elapsed may be the next one to run.
ExpireInAnyOrder == \E t \in timers : t.deadline <= now /\ ExpiryCallback(t)

AnyOrderNext == OnShow \/ ExpireInAnyOrder \/ Tick

AnyOrderSpec == Init /\ [][AnyOrderNext]_vars

\* ------------------------------------------------- statement-level model
\* The handlers of lines 12-29 one statement at a time.  An activation is
\* [kind, pc, c, item]: pc is the statement it executes next, c the
\* msgContainer of its closure, item the result of queue.find.

\* mutant of AwaitPoints: onShow awaits before the push
AwaitBeforePush == {"push"}

\* statements before which a handler awaits: neither onShow nor the timer
\* callback contains an await, both are synchronous functions
AwaitPoints == {}

\* the event loop starts a task only when no handler is on the call stack
CanStart == \A a \in running : a.pc \in AwaitPoints

\* a handler on the stack runs on; a suspended one resumes on an empty stack
Runnable(a) ==
  \/ a.pc \notin AwaitPoints
  \/ \A b \in running \ {a} : b.pc \in AwaitPoints

\* order of the statements of onShow after createElement (lines 15-23)
OnShowPcAfter(pc) ==
  CASE pc = "top" -> "append"
    [] pc = "append" -> "render"
    [] pc = "render" -> "push"
    [] pc = "push" -> "setTimeout"
    [] OTHER -> "done"

\* mutant of ExpirePcAfter: the record is spliced out before the unmount
ExpirePcSpliceFirst(pc) ==
  CASE pc = "find" -> "splice"
    [] pc = "splice" -> "unmount"
    [] pc = "unmount" -> "removeChild"
    [] OTHER -> "done"

\* order of the statements of the timer callback (lines 24-27)
ExpirePcAfter(pc) ==
  CASE pc = "find" -> "unmount"
    [] pc = "unmount" -> "removeChild"
    [] pc = "removeChild" -> "splice"
    [] OTHER -> "done"

\* the activation a moves to statement pc, or returns
Continue(a, pc, item) ==
  running' = (running \ {a}) \cup
               (IF pc = "done" THEN {}
                ELSE {[kind |-> a.kind, pc |-> pc, c |-> a.c, item |-> item]})

\* window.onShow() is called: lines 13-14 create the element
CallOnShow ==
  /\ CanStart
  /\ calls < MaxCalls
  /\ running' = running \cup
       {[kind |-> "onShow", pc |-> "top", c |-> CreateElement(calls), item |-> Undefined]}
  /\ createdAt' = [x \in DOMAIN createdAt \cup {CreateElement(calls)} |->
                     IF x = CreateElement(calls) THEN now ELSE createdAt[x]]
  /\ calls' = calls + 1
  /\ UNCHANGED <<queue, body, mounted, style, timers, now, expired, queryVars, demoVars>>

\* one statement of onShow, lines 15-28
OnShowStatement(a) ==
  /\ a \in running
  /\ a.kind = "onShow"
  /\ Runnable(a)
  /\ style' = IF a.pc = "top" THEN SetTop(style, a.c, TopOffset(queue)) ELSE style
  /\ body' = IF a.pc = "append" THEN AppendChild(body, a.c) ELSE body
  /\ mounted' = IF a.pc = "render" THEN mounted \cup {a.c} ELSE mounted
  /\ queue' = IF a.pc = "push" THEN Push(queue, Item(a.c)) ELSE queue
  /\ timers' = IF a.pc = "setTimeout"
               THEN timers \cup {[c |-> a.c, deadline |-> Deadline(now)]}
               ELSE timers
  /\ Continue(a, OnShowPcAfter(a.pc), a.item)
  /\ UNCHANGED <<now, calls, createdAt, expired, queryVars, demoVars>>

OnShowStep == \E a \in running : OnShowStatement(a)

\* the event loop starts the callback of a due timer
StartExpire(t) ==
  /\ CanStart
  /\ Due(t)
  /\ timers' = timers \ {t}
  /\ running' = running \cup {[kind |-> "expire", pc |-> "find", c |-> t.c, item |-> Undefined]}
  /\ UNCHANGED <<queue, body, mounted, style, now, calls, createdAt, expired, queryVars, demoVars>>

StartExpireAny == \E t \in timers : StartExpire(t)

\* a statement of the callback throws when item is undefined (item.root,
\* item.msgContainer) or when the container is not a child of document.body
Throws(a) ==
  \/ a.pc \in {"unmount", "removeChild"} /\ a.item = Undefined
  \/ a.pc = "removeChild" /\ a.item.msgContainer \notin body

\* one statement of the timer callback, lines 24-27
ExpireStatement(a) ==
  /\ a \in running
  /\ a.kind = "expire"
  /\ Runnable(a)
  /\ IF Throws(a)
     THEN /\ running' = running \ {a}
          /\ UNCHANGED <<queue, body, mounted, expired>>
     ELSE /\ mounted' = IF a.pc = "unmount" THEN mounted \ {a.item.root} ELSE mounted
          /\ body' = IF a.pc = "removeChild"
                     THEN RemoveChild(body, a.item.msgContainer) ELSE body
          /\ queue' = IF a.pc = "splice"
                      THEN Splice(queue, IndexOf(queue, a.item), 1) ELSE queue
          /\ expired' = expired \o SplicedOut(queue, queue')
          /\ Continue(a, ExpirePcAfter(a.pc),
                      IF a.pc = "find" THEN Find(queue, a.c) ELSE a.item)
  /\ UNCHANGED <<style, timers, now, calls, createdAt, queryVars, demoVars>>

ExpireStep == \E a \in running : ExpireStatement(a)

\* time passes between tasks (a handler run is far shorter than a tick)
IdleTick == running = {} /\ Tick

StepNext == CallOnShow \/ OnShowStep \/ StartExpireAny \/ ExpireStep \/ IdleTick

StepSpec == Init /\ [][StepNext]_vars

\* ------------------------------------------------ ReactQuery operations
\* onMutate is suspended only at `await queryClient.cancelQueries(...)`,
\* whose promise settles in the same turn of the event loop: onMutate resumes
\* in a microtask, before any click, timer or mock server response runs
TaskCanStart == upd.phase # "onMutate"

\* updateTodoMutation.mutate(newTodo): the mutation is pending and onMutate
\* starts; its cancelQueries(["todos"]) stops a fetch in flight
MutateUpdate(newTodo) ==
  /\ upd' = [phase |-> "onMutate", variables |-> newTodo, context |-> NoData,
             before |-> NoData, log |-> <<"onMutate">>]
  /\ todosQ' = [todosQ EXCEPT !.fetching = FALSE]
  /\ UNCHANGED <<cache, detailQ, selectedId, toastVars, running, demoVars>>

\* the button of a rendered todo ({todos && todos.map(...)}), disabled while
\* the mutation is pending: handleOptimisticUpdate(todo)
ClickToggle ==
  /\ cache.has
  /\ upd.phase = "idle"
  /\ \E i \in DOMAIN cache.data : MutateUpdate(Toggled(cache.data[i]))

\* onMutate after the await: snapshot, optimistic write, return { previousTodos }
OnMutateResume ==
  /\ upd.phase = "onMutate"
  /\ cache' = OptimisticWrite(cache, upd.variables)
  /\ upd' = [upd EXCEPT !.phase = "inFlight", !.context = cache, !.before = cache]
  /\ UNCHANGED <<todosQ, detailQ, selectedId, toastVars, running, demoVars>>

\* one callback of the mutation has run: it is logged, and the ["todos"]
\* query is refetched when the callback invalidates it
AfterCallback(callback, phase) ==
  /\ upd' = IF phase = "idle"
            THEN [IdleMutation EXCEPT !.log = Append(upd.log, callback)]
            ELSE [upd EXCEPT !.phase = phase, !.log = Append(@, callback)]
  /\ todosQ' = Refetched(todosQ, cache', Invalidates(callback))

\* updateTodoOptimistic resolves: onSuccess
UpdateResolves ==
  /\ upd.phase = "inFlight"
  /\ cache' = cache
  /\ AfterCallback("onSuccess", "settling")
  /\ UNCHANGED <<detailQ, selectedId, toastVars, running, demoVars>>

\* updateTodoOptimistic rejects: onError rolls back
UpdateRejects ==
  /\ upd.phase = "inFlight"
  /\ cache' = Rollback(cache, upd.context)
  /\ AfterCallback("onError", "settling")
  /\ UNCHANGED <<detailQ, selectedId, toastVars, running, demoVars>>

\* onSettled, after onSuccess or onError; the mutation is no longer pending
UpdateSettled ==
  /\ upd.phase = "settling"
  /\ cache' = cache
  /\ AfterCallback("onSettled", "idle")
  /\ UNCHANGED <<detailQ, selectedId, toastVars, running, demoVars>>

\* fetchTodos resolves
TodosResolves ==
  /\ TaskCanStart
  /\ todosQ.fetching
  /\ cache' = Data(ServerTodos)
  /\ todosQ' = FetchSucceeded(todosQ)
  /\ UNCHANGED <<detailQ, selectedId, upd, toastVars, running, demoVars>>

\* fetchTodos throws
TodosRejects ==
  /\ TaskCanStart
  /\ todosQ.fetching
  /\ todosQ' = FetchFailed(todosQ, EffectiveRetry(TodosRetryOption, GlobalRetryOption))
  /\ UNCHANGED <<cache, detailQ, selectedId, upd, toastVars, running, demoVars>>

\* the refetch buttons (disabled while fetching) and handleInvalidate
ClickRefetch ==
  /\ TaskCanStart
  /\ ~todosQ.fetching
  /\ todosQ' = Refetched(todosQ, cache, TRUE)
  /\ UNCHANGED <<cache, detailQ, selectedId, upd, toastVars, running, demoVars>>

\* setSelectedId(todo.id) on a rendered todo: the ["todo", id] query is
\* enabled and fetches unless it has data or is already fetching
Select(id) ==
  /\ TaskCanStart
  /\ cache.has
  /\ \E i \in DOMAIN cache.data : cache.data[i].id = id
  /\ id \in DOMAIN detailQ
  /\ selectedId # id
  /\ selectedId' = id
  /\ detailQ' = [detailQ EXCEPT ![id] =
                   IF @.hasData \/ @.q.fetching THEN @
                   ELSE [q |-> StartFetch(@.q, FALSE), hasData |-> FALSE]]
  /\ UNCHANGED <<cache, todosQ, upd, toastVars, running, demoVars>>

SelectAny == \E id \in DetailIds : Select(id)

\* setSelectedId(null)
Unselect ==
  /\ TaskCanStart
  /\ selectedId # 0
  /\ selectedId' = 0
  /\ UNCHANGED <<cache, todosQ, detailQ, upd, toastVars, running, demoVars>>

\* fetchTodoById resolves
DetailResolves ==
  \E id \in DOMAIN detailQ :
    /\ TaskCanStart
    /\ detailQ[id].q.fetching
    /\ detailQ' = [detailQ EXCEPT ![id] = [q |-> FetchSucceeded(@.q), hasData |-> TRUE]]
    /\ UNCHANGED <<cache, todosQ, selectedId, upd, toastVars, running, demoVars>>

\* fetchTodoById throws
DetailRejects ==
  \E id \in DOMAIN detailQ :
    /\ TaskCanStart
    /\ detailQ[id].q.fetching
    /\ detailQ' = [detailQ EXCEPT ![id].q =
                     FetchFailed(@, EffectiveRetry(DetailRetryOption, GlobalRetryOption))]
    /\ UNCHANGED <<cache, todosQ, selectedId, upd, toastVars, running, demoVars>>

QueryNext ==
  \/ ClickToggle \/ OnMutateResume \/ UpdateResolves \/ UpdateRejects \/ UpdateSettled
  \/ TodosResolves \/ TodosRejects \/ ClickRefetch
  \/ SelectAny \/ Unselect \/ DetailResolves \/ DetailRejects

QuerySpec == Init /\ [][QueryNext]_vars

\* The callbacks of updateTodoMutation as a function of the cache: mutate is
\* called on every value getQueryData<Todo[]>(["todos"]) can return, the
\* undefined of onMutate's `if (!old)` branch included.
TodoUniverse == {Todo(id, c, FALSE) : id \in 1 .. MaxPriorTodos, c \in BOOLEAN}

PriorCaches ==
  {NoData} \cup
  {Data(l) : l \in {m \in UNION {[1 .. n -> TodoUniverse] : n \in 0 .. MaxPriorTodos} :
                      \A i, j \in DOMAIN m : i # j => m[i].id # m[j].id}}

RollbackInit ==
  /\ ToastInit
  /\ DemoInit
  /\ cache \in PriorCaches
  /\ todosQ = IdleQuery
  /\ detailQ = [id \in DetailIds |-> [q |-> IdleQuery, hasData |-> FALSE]]
  /\ selectedId = 0
  /\ upd = IdleMutation

\* updateTodoMutation.mutate({ ...todo, completed: !todo.completed })
MutateAny ==
  /\ upd.phase = "idle"
  /\ \E t \in TodoUniverse : MutateUpdate(Toggled(t))

RollbackNext ==
  \/ MutateAny \/ OnMutateResume \/ UpdateResolves \/ UpdateRejects \/ UpdateSettled
  \/ TodosResolves \/ TodosRejects

RollbackSpec == RollbackInit /\ [][RollbackNext]_vars

\* ------------------------------------------ addTodoMutation operations
\* onChange of the input: setNewTodoTitle(e.target.value)
SetNewTodoTitle ==
  \E text \in Texts :
    /\ TaskCanStart
    /\ text # newTodoTitle
    /\ newTodoTitle' = text
    /\ UNCHANGED <<addM, added, queryVars, toastVars, running, refVars, cartVars>>

\* handleAddTodo, the button being disabled while the mutation is pending:
\* if (newTodoTitle.trim()) addTodoMutation.mutate({ title: newTodoTitle.trim() })
HandleAddTodo ==
  /\ TaskCanStart
  /\ addM.status # "pending"
  /\ added < MaxAdds
  /\ Trim(newTodoTitle) # <<>>
  /\ addM' = [status |-> "pending", variables |-> [title |-> Trim(newTodoTitle)]]
  /\ UNCHANGED <<newTodoTitle, added, queryVars, toastVars, running, refVars, cartVars>>

\* addTodo resolves: onSuccess appends the new todo and clears the input
AddResolves ==
  /\ TaskCanStart
  /\ addM.status = "pending"
  /\ cache' = AddOnSuccess(cache, AddedTodo(DateNow(added), addM.variables.title))
  /\ newTodoTitle' = <<>>
  /\ addM' = [addM EXCEPT !.status = "success"]
  /\ added' = added + 1
  /\ UNCHANGED <<todosQ, detailQ, selectedId, upd, toastVars, running, refVars, cartVars>>

\* addTodo throws: onError logs and alerts
AddRejects ==
  /\ TaskCanStart
  /\ addM.status = "pending"
  /\ addM' = [addM EXCEPT !.status = "error"]
  /\ UNCHANGED <<newTodoTitle, added, queryVars, toastVars, running, refVars, cartVars>>

\* the todo list with both mutations: the operations of QuerySpec on the
\* ["todos"] query and on updateTodoMutation, and those of addTodoMutation
AddNext ==
  \/ SetNewTodoTitle \/ HandleAddTodo \/ AddResolves \/ AddRejects
  \/ ClickToggle \/ OnMutateResume \/ UpdateResolves \/ UpdateRejects \/ UpdateSettled
  \/ TodosResolves \/ TodosRejects \/ ClickRefetch

AddSpec == Init /\ [][AddNext]_vars

\* ----------------------------------------------------- Ref operations
\* handleStart: timer.current = setInterval(() => setT((t) => t + 1), 300);
\* the handle held before is overwritten
HandleStart ==
  /\ Len(presses) < MaxPresses
  /\ handles' = handles + 1
  /\ intervals' = SetInterval(intervals, handles + 1)
  /\ timer' = handles + 1
  /\ presses' = Append(presses, "start")
  /\ UNCHANGED <<tState, toastVars, running, queryVars, addVars, cartVars>>

\* handleEnd: if (timer.current) { clearInterval(timer.current);
\* timer.current = null }
HandleEnd ==
  /\ Len(presses) < MaxPresses
  /\ IF timer # 0
     THEN /\ intervals' = ClearInterval(intervals, timer)
          /\ timer' = 0
     ELSE UNCHANGED <<intervals, timer>>
  /\ presses' = Append(presses, "end")
  /\ UNCHANGED <<tState, handles, toastVars, running, queryVars, addVars, cartVars>>

\* the callback of the active interval h runs: setT((t) => t + 1)
IntervalFires(h) ==
  /\ h \in intervals
  /\ tState < MaxIntervalTicks
  /\ tState' = tState + 1
  /\ UNCHANGED <<timer, intervals, handles, presses>>
  /\ UNCHANGED <<toastVars, running, queryVars, addVars, cartVars>>

IntervalFiresAny == \E h \in intervals : IntervalFires(h)

RefNext == HandleStart \/ HandleEnd \/ IntervalFiresAny

RefSpec == Init /\ [][RefNext]_vars

\* an active interval keeps firing
RefFairSpec == RefSpec /\ WF_vars(IntervalFiresAny)

\* ---------------------------------------------------- cart operations
\* the component renders with the goods array g of identity id: useMemo
\* runs its callback when the dependency changed and returns the value of
\* the last run otherwise
Render(g, id) ==
  /\ total' = IF DepsChanged(memoDeps, id) THEN Reduce(g, 0) ELSE total
  /\ memoDeps' = IF DepsChanged(memoDeps, id) THEN id ELSE memoDeps
  /\ computed' = IF DepsChanged(memoDeps, id) THEN computed + 1 ELSE computed

\* setGoods(next) with a new array, and the render that follows
SetGoods(next) ==
  /\ goodsId < MaxClicks
  /\ goods' = next
  /\ goodsId' = goodsId + 1
  /\ Render(next, goodsId + 1)
  /\ UNCHANGED <<search, toastVars, running, queryVars, addVars, refVars>>

\* handleAdd(id), the + button of a rendered item
HandleAdd == \E i \in DOMAIN goods : SetGoods(MapCount(goods, goods[i].id, 1))

\* handleSub(id), the - button of a rendered item
HandleSub == \E i \in DOMAIN goods : SetGoods(MapCount(goods, goods[i].id, -1))

\* onChange of the search box: setSearch(e.target.value), and the render
\* that follows
SetSearch ==
  \E text \in SearchTexts :
    /\ text # search
    /\ search' = text
    /\ Render(goods, goodsId)
    /\ UNCHANGED <<goods, goodsId, toastVars, running, queryVars, addVars, refVars>>

CartNext == HandleAdd \/ HandleSub \/ SetSearch

CartSpec == Init /\ [][CartNext]_vars

\* ----------------------------------------------------------------- claims
Created == 0 .. (calls - 1)

NoExpiryYet == expired = <<>> /\ Cardinality(timers) = calls

\* C1: after N calls to onShow() with no expiry in between, the queue holds
\* exactly N records and the i-th created container (i = 0..N-1) has top
\* offset i * 50, so the N offsets are pairwise distinct.
C1_OffsetsOfBurst ==
  NoExpiryYet =>
    /\ Len(queue) = calls
    /\ \A i \in 1 .. Len(queue) :
         /\ queue[i].msgContainer = i - 1
         /\ style[i - 1] = (i - 1) * StackHeight
    /\ \A c, d \in Created : c # d => style[c] # style[d]

C1_Witness == NoExpiryYet /\ calls = MaxCalls /\ Len(queue) = MaxCalls

\* C2: when the expiry callback of toast A runs, every other record B of the
\* queue stays in the queue (in the same relative order), B's container stays
\* attached, B's root stays mounted and B's offset is unchanged.
C2_ExpiryIsolation ==
  [][\A t \in timers : t \notin timers' =>
       /\ queue' = SelectSeq(queue, LAMBDA it : it.msgContainer # t.c)
       /\ \A i \in DOMAIN queue : queue[i].msgContainer # t.c =>
            /\ queue[i].msgContainer \in body'
            /\ queue[i].root \in mounted'
            /\ style'[queue[i].msgContainer] = style[queue[i].msgContainer]
       /\ body \ body' \subseteq {t.c}
       /\ mounted \ mounted' \subseteq {t.c}]_vars

C2_Witness == Len(expired) >= 1 /\ Len(queue) >= 2

\* C3: between operations a record is in the queue iff its container is
\* attached to document.body and its root is mounted; a removed record's
\* container is detached, its root unmounted, and no queue entry refers to it.
C3_QueueMatchesDom ==
  /\ \A c \in Created :
       /\ (c \in Containers(queue)) <=> (c \in body /\ c \in mounted)
       /\ (c \in body) <=> (c \in mounted)
  /\ \A i \in DOMAIN queue : queue[i].root = queue[i].msgContainer
  /\ \A i \in DOMAIN expired :
       /\ expired[i] \notin body
       /\ expired[i] \notin mounted
       /\ expired[i] \notin Containers(queue)

C3_Witness == Len(expired) >= 1 /\ Len(queue) >= 1

\* C4: a toast created at time T is in the queue with its container attached
\* at every time strictly before T + 2000; a record leaves the queue only in
\* the step that runs its own timer, at a time >= T + 2000.
C4_NotBeforeDelay ==
  /\ [](\A c \in Created : now < createdAt[c] + Delay =>
          c \in Containers(queue) /\ c \in body)
  /\ [][\A c \in Containers(queue) : c \notin Containers(queue') =>
          /\ \E t \in timers : t.c = c /\ t \notin timers'
          /\ now >= createdAt[c] + Delay
          /\ c \notin body']_vars

C4_Witness ==
  /\ expired # <<>>
  /\ \E c \in Containers(queue) :
       createdAt[c] < now /\ now < createdAt[c] + Delay

\* C5: any two records that are in the queue at the same time have different
\* top offsets.
C5_DistinctOffsets ==
  \A i, j \in DOMAIN queue :
    i # j => style[queue[i].msgContainer] # style[queue[j].msgContainer]

NoDuplicates(s) == \A i, j \in DOMAIN s : i # j => s[i] # s[j]

\* C6: each onShow() call creates exactly one container, one mounted root,
\* one queue record and one timer; each record is removed by exactly one
\* expiry; calls made less than 2000 ms apart are all in the queue right
\* after the last of them; removals never exceed calls.
C6_OnePerCall ==
  /\ [](/\ Len(expired) <= calls
        /\ NoDuplicates(expired)
        /\ NoDuplicates(queue)
        /\ Len(queue) + Len(expired) = calls
        /\ DOMAIN style = Created)
  /\ [][/\ calls' = calls + 1 =>
             /\ Len(queue') = Len(queue) + 1
             /\ Cardinality(body') = Cardinality(body) + 1
             /\ Cardinality(mounted') = Cardinality(mounted) + 1
             /\ Cardinality(timers') = Cardinality(timers) + 1
             /\ Cardinality(DOMAIN style') = Cardinality(DOMAIN style) + 1
             /\ \A c \in Created' :
                  now < createdAt'[c] + Delay => c \in Containers(queue')
        /\ calls' = calls =>
             /\ Len(expired') <= Len(expired) + 1
             /\ Len(queue') >= Len(queue) - 1
             /\ Cardinality(timers') <= Cardinality(timers)]_vars

C6_Witness == calls = MaxCalls /\ Len(queue) = MaxCalls /\ now > 0

\* C7: records leave the queue in the order of their onShow() calls, one
\* removal per step.
C7_ExpiryOrder ==
  /\ [](\A i \in DOMAIN expired : expired[i] = i - 1)
  /\ [][Len(expired') <= Len(expired) + 1]_vars

C7_Witness ==
  /\ Len(expired) = MaxCalls
  /\ \A c \in Created : c > 0 => createdAt[c - 1] < createdAt[c]

\* C8: under fair firing of timers every record added by onShow() is
\* eventually removed, and once onShow() is no longer called the queue
\* becomes empty and stays empty with no container attached.
C8_EventuallyExpires ==
  /\ \A c \in 0 .. (MaxCalls - 1) :
       (c \in Containers(queue)) ~> (c \notin Containers(queue))
  /\ <>[][calls' = calls]_vars => <>[](queue = <<>> /\ body = {} /\ mounted = {})

C8_Witness == calls = MaxCalls /\ Len(expired) = MaxCalls /\ queue = <<>> /\ body = {}

\* C9: the top offset given to a container at creation never changes: no
\* later onShow() and no expiry modifies it.
C9_OffsetFrozen ==
  [][\A c \in DOMAIN style : c \in DOMAIN style' /\ style'[c] = style[c]]_vars

C9_Witness ==
  /\ Len(expired) >= 1
  /\ Len(queue) >= 2
  /\ \E i \in DOMAIN queue : style[queue[i].msgContainer] # (i - 1) * StackHeight

\* C10: for any two records in the queue, the one at the lower queue index
\* has the strictly smaller top offset.
C10_StackingOrder ==
  \A i, j \in DOMAIN queue :
    i < j => style[queue[i].msgContainer] < style[queue[j].msgContainer]

Pending == {t.c : t \in timers}

\* C11: expirations are order-independent: whatever the order in which the
\* elapsed callbacks have run, the queue is the creation-ordered list of the
\* toasts whose callback has not run, exactly their containers are attached
\* and mounted, and each callback removes its own record only and leaves
\* every offset as it was.
C11_OrderIndependent ==
  /\ [](/\ queue = SelectSeq([i \in 1 .. calls |-> Item(i - 1)],
                             LAMBDA it : it.msgContainer \in Pending)
        /\ body = Pending
        /\ mounted = Pending)
  /\ [][\A t \in timers : t \notin timers' =>
          /\ expired' = Append(expired, t.c)
          /\ Containers(queue) \ Containers(queue') = {t.c}
          /\ style' = style]_vars

C11_Witness ==
  /\ Len(expired) >= 2
  /\ expired[1] > expired[2]
  /\ queue # <<>>

Phase(c) ==
  IF c \in Containers(queue) /\ c \in body /\ c \in mounted THEN "mounted"
  ELSE IF c \notin Containers(queue) /\ c \notin body /\ c \notin mounted THEN "removed"
  ELSE "other"

\* C12: a toast is created mounted, goes from mounted to removed only in the
\* step that runs its own timer, and never comes back once removed; a pending
\* timer is never cancelled, rescheduled or postponed.
C12_Lifecycle ==
  /\ [](\A c \in Created : Phase(c) \in {"mounted", "removed"})
  /\ [][/\ \A c \in Created :
             /\ Phase(c) = "removed" => Phase(c)' = "removed"
             /\ (Phase(c) = "mounted" /\ Phase(c)' # "mounted") =>
                  \E t \in timers : t.c = c /\ t \notin timers' /\ t.deadline <= now
        /\ \A c \in Created' \ Created : Phase(c)' = "mounted"
        /\ \A t \in timers :
             t \in timers' \/ (Phase(t.c) = "mounted" /\ Phase(t.c)' = "removed")
        /\ \A t \in timers' : t \in timers \/ t.c \notin Created]_vars

C12_Witness ==
  /\ expired # <<>>
  /\ \E c \in Created : Phase(c) = "mounted" /\ createdAt[c] >= createdAt[expired[1]] + Delay

\* C14: the offset of a new container is 50 times the number of records in
\* the queue when onShow() is called, i.e. of the toasts that have not
\* expired yet, not 50 times the number of toasts ever created.
C14_OffsetFromQueueLength ==
  [][calls' = calls + 1 =>
       /\ calls \in DOMAIN style'
       /\ style'[calls] = StackHeight * Len(queue)
       /\ style'[calls] = StackHeight * (calls - Len(expired))]_vars

C14_Witness == \E c \in Created : style[c] # StackHeight * c

\* C15: onShow() is accepted whatever the size of the queue: it can be called
\* in every state (up to the number of calls explored) and every call appends
\* the record of the new container to the queue.
C15_NoBackpressure ==
  /\ [](calls < MaxCalls => ENABLED OnShow)
  /\ [][calls' = calls + 1 => queue' = Append(queue, Item(calls))]_vars

C15_Witness == Len(queue) = MaxCalls /\ Cardinality(body) = MaxCalls /\ expired = <<>>

\* C13: onShow() and every timer callback run to completion: while a handler
\* is between two of its statements no other handler starts or runs, no
\* callback runs between onShow's offset computation, appendChild, render and
\* push, and no onShow or other callback runs between a callback's find,
\* unmount, removeChild and splice.
C13_RunToCompletion ==
  /\ [](Cardinality(running) <= 1)
  /\ [][\A a \in running :
          /\ \A b \in running' : b.kind = a.kind /\ b.c = a.c
          /\ calls' = calls
          /\ a.kind = "onShow" =>
               /\ timers \subseteq timers'
               /\ expired' = expired
               /\ queue' = queue \/ queue' = Append(queue, Item(a.c))
          /\ a.kind = "expire" =>
               /\ timers' = timers
               /\ style' = style
               /\ Containers(queue) \ Containers(queue') \subseteq {a.c}]_vars

C13_Witness ==
  /\ calls < MaxCalls
  /\ \E a \in running : a.kind = "onShow" /\ a.pc = "push"
  /\ \E t \in timers : t.deadline <= now

\* C20: inside one timer callback the record is found by container identity,
\* then its root is unmounted, then its container is removed from the body,
\* and only then is the record spliced out: the record is still in the queue
\* while its root is unmounted and its container detached.
C20_StatementOrder ==
  /\ [](\A a \in running : a.kind = "expire" =>
          /\ a.c \in Containers(queue)
          /\ a.pc = "find" => a.c \in mounted /\ a.c \in body
          /\ a.pc = "unmount" =>
               a.item = Item(a.c) /\ a.item.root \in mounted /\ a.c \in body
          /\ a.pc = "removeChild" => a.item.root \notin mounted /\ a.c \in body
          /\ a.pc = "splice" => a.item.root \notin mounted /\ a.c \notin body)
  /\ [][\A a \in running : a.kind = "expire" =>
          \/ a \in running'
          \/ a.pc = "splice" /\ running' = {} /\ a.c \notin Containers(queue')
          \/ \E b \in running' :
               /\ b.kind = "expire" /\ b.c = a.c
               /\ <<a.pc, b.pc>> \in {<<"find", "unmount">>,
                                      <<"unmount", "removeChild">>,
                                      <<"removeChild", "splice">>}]_vars

C20_Witness ==
  \E a \in running :
    /\ a.kind = "expire" /\ a.pc = "splice"
    /\ a.c \in Containers(queue) /\ a.c \notin body /\ a.c \notin mounted
    /\ Len(queue) >= 2

\* C16: until onShow() is called for the first time the queue is empty, no
\* container is created, attached or mounted and no timer is pending.
C16_NothingBeforeFirstCall ==
  calls = 0 =>
    /\ queue = <<>>
    /\ body = {}
    /\ mounted = {}
    /\ timers = {}
    /\ DOMAIN style = {}
    /\ expired = <<>>
    /\ running = {}

C16_Witness == calls = 0 /\ now >= Delay

OnErrorStep ==
  /\ upd.phase = "inFlight"
  /\ upd'.phase = "settling"
  /\ upd'.log = <<"onMutate", "onError">>

C18_SettledInvalidates ==
  /\ [](/\ upd.phase = "idle" =>
             upd.log \in {<<>>, <<"onMutate", "onSuccess", "onSettled">>,
                          <<"onMutate", "onError", "onSettled">>}
        /\ upd.phase = "settling" =>
             upd.log \in {<<"onMutate", "onSuccess">>, <<"onMutate", "onError">>})
  /\ [][/\ (upd.phase # "idle" /\ upd'.phase = "idle") =>
             /\ upd.phase = "settling"
             /\ cache' = cache
             /\ todosQ'.fetching
             /\ todosQ'.failureCount = 0
        /\ OnErrorStep => cache' = upd.context]_vars

C18_Witness ==
  /\ upd.phase = "idle"
  /\ upd.log = <<"onMutate", "onError", "onSettled">>
  /\ todosQ.fetching

Failure(q, r) == q.fetching /\ r.failureCount = q.failureCount + 1

C26_OwnRecordFound ==
  /\ [](\A t \in timers :
          /\ Find(queue, t.c) # Undefined
          /\ Find(queue, t.c) = Item(t.c)
          /\ IndexOf(queue, Find(queue, t.c)) \in 0 .. (Len(queue) - 1)
          /\ queue[IndexOf(queue, Find(queue, t.c)) + 1].msgContainer = t.c)
  /\ [][\A t \in timers : t \notin timers' =>
          LET index == IndexOf(queue, Find(queue, t.c)) IN
            /\ index # -1
            /\ Len(queue') = Len(queue) - 1
            /\ \A i \in DOMAIN queue' :
                 queue'[i] = IF i <= index THEN queue[i] ELSE queue[i + 1]
            /\ t.c \notin Containers(queue')]_vars

C26_Witness ==
  /\ Len(expired) = 2
  /\ Len(queue) = 1
  /\ Cardinality(timers) = 1

\* C27: between operations the pending timers and the queue records
\* correspond one to one: each record has exactly one pending timer, for its
\* own container, no pending timer is for a container without a record, and
\* a pending timer goes away only by running its callback, which removes its
\* record; its deadline never changes.
C27_TimersMatchQueue ==
  /\ [](/\ \A i \in DOMAIN queue :
             Cardinality({t \in timers : t.c = queue[i].msgContainer}) = 1
        /\ \A t \in timers :
             Cardinality({i \in DOMAIN queue : queue[i].msgContainer = t.c}) = 1
        /\ Cardinality(timers) = Len(queue))
  /\ [][\A t \in timers :
          \/ t \in timers'
          \/ /\ t.deadline <= now
             /\ t.c \in Containers(queue)
             /\ t.c \notin Containers(queue')]_vars

C27_Witness ==
  /\ Len(queue) = 2
  /\ Cardinality(timers) = 2
  /\ Len(expired) = 1
  /\ \E t, u \in timers : t.deadline < u.deadline

\* number of "start" presses at the end of p, with no "end" after them
StartsInARow(p) ==
  Len(p) - (CHOOSE i \in 0 .. Len(p) :
              /\ \A j \in (i + 1) .. Len(p) : p[j] = "start"
              /\ (i = 0 \/ p[i] # "start"))

Alternating(p) == \A i \in 1 .. (Len(p) - 1) : p[i] # p[i + 1]

\* the active intervals whose handle timer.current does not hold
Orphans == intervals \ {timer}

\* C21: in the Ref demo k presses of handleStart in a row leave k intervals
\* active with timer.current holding the handle of the last one; a following
\* handleEnd clears that one only, the k - 1 others stay active, are never
\* cleared by any later press and keep incrementing t, by one per callback;
\* while the presses alternate strictly at most one interval is active and
\* none is after a handleEnd.
C21_LeakedIntervals ==
  /\ [](StartsInARow(presses) >= 1 =>
          /\ timer = handles
          /\ ((handles - StartsInARow(presses) + 1) .. handles) \subseteq intervals)
  /\ [][(presses' = Append(presses, "end") /\ StartsInARow(presses) >= 2) =>
          /\ intervals' = intervals \ {handles}
          /\ Cardinality(intervals') = Cardinality(intervals) - 1
          /\ ((handles - StartsInARow(presses) + 1) .. (handles - 1)) \subseteq intervals'
          /\ Cardinality(intervals') >= StartsInARow(presses) - 1
          /\ timer' = 0]_vars
  /\ [][\A h \in Orphans : h \in intervals' /\ h \in Orphans']_vars
  /\ [][tState' # tState => tState' = tState + 1 /\ intervals # {}]_vars
  /\ \A n \in 0 .. (MaxIntervalTicks - 1) :
       (Orphans # {} /\ tState = n) ~> (tState = n + 1)
  /\ [](Alternating(presses) =>
          /\ Cardinality(intervals) <= 1
          /\ (presses # <<>> /\ presses[Len(presses)] = "end") => intervals = {})

C21_Witness ==
  /\ Len(presses) >= 4
  /\ SubSeq(presses, 1, 4) = <<"start", "start", "start", "end">>
  /\ Cardinality(intervals) >= 2
  /\ {1, 2} \subseteq intervals
  /\ tState = MaxIntervalTicks

\* sum of price * count over the first n goods of g
RECURSIVE SumOfGoods(_, _)
SumOfGoods(g, n) ==
  IF n = 0 THEN 0 ELSE SumOfGoods(g, n - 1) + g[n].price * g[n].count

OnMutateWrite == upd.phase = "onMutate" /\ upd'.phase = "inFlight"

\* C23: the optimistic write of onMutate comes before the result of the
\* server call (onSuccess and onError run only after it), and on a cached
\* list it changes only the todo with the id of the mutated todo, whose
\* completed flag is negated and which is marked optimistic: the other
\* todos, the length and the order of the list are unchanged.
C23_OptimisticFrame ==
  /\ [][(upd'.phase = "settling" /\ upd.phase # "settling") =>
          upd.phase = "inFlight" /\ upd.log = <<"onMutate">>]_vars
  /\ [][(upd'.phase = "inFlight" /\ upd.phase # "inFlight") => OnMutateWrite]_vars
  /\ [][(OnMutateWrite /\ cache.has) =>
          /\ cache'.has
          /\ Len(cache'.data) = Len(cache.data)
          /\ \A i \in DOMAIN cache.data :
               IF cache.data[i].id = upd.variables.id
               THEN /\ cache'.data[i] =
                         [cache.data[i] EXCEPT !.completed = ~@, !.optimistic = TRUE]
                    /\ cache'.data[i].completed = upd.variables.completed
               ELSE cache'.data[i] = cache.data[i]]_vars

C23_Witness ==
  /\ upd.phase = "inFlight"
  /\ cache.has
  /\ Len(cache.data) = Len(ServerTodos) + 1
  /\ \E i \in DOMAIN cache.data :
       /\ cache.data[i].optimistic
       /\ cache.data[i].id = upd.variables.id
       /\ \A j \in DOMAIN cache.data : j # i => ~cache.data[j].optimistic

AddStarted == addM.status # "pending" /\ addM'.status = "pending"

AddSucceeded == addM.status = "pending" /\ addM'.status = "success"

AddFailed == addM.status = "pending" /\ addM'.status = "error"

\* the text s is the text title with white space before and after it
Surrounds(s, title) ==
  \E a \in 0 .. Len(s) :
    /\ a + Len(title) <= Len(s)
    /\ SubSeq(s, a + 1, a + Len(title)) = title
    /\ \A i \in DOMAIN s : (i <= a \/ i > a + Len(title)) => s[i] = " "

\* C24: an add-todo mutation starts only from an input with a character
\* that is not white space, with that text without the surrounding white
\* space as its title; the ["todos"] cache changes only in the success step
\* of the mutation, where the returned todo is appended after the todos that
\* were cached (a list of that one todo when nothing was cached); the failure
\* step leaves the cache and the input text as they were.
C24_AddTodo ==
  /\ [][AddStarted =>
          /\ \E i \in DOMAIN newTodoTitle : newTodoTitle[i] # " "
          /\ addM'.variables.title # <<>>
          /\ Head(addM'.variables.title) # " "
          /\ addM'.variables.title[Len(addM'.variables.title)] # " "
          /\ Surrounds(newTodoTitle, addM'.variables.title)
          /\ cache' = cache]_vars
  /\ [][AddSucceeded =>
          /\ cache'.has
          /\ Len(cache'.data) = (IF cache.has THEN Len(cache.data) ELSE 0) + 1
          /\ cache.has => \A i \in DOMAIN cache.data : cache'.data[i] = cache.data[i]
          /\ cache'.data[Len(cache'.data)].title = addM.variables.title
          /\ ~cache'.data[Len(cache'.data)].completed
          /\ cache.has => \A i \in DOMAIN cache.data :
               cache.data[i].id # cache'.data[Len(cache'.data)].id]_vars
  /\ [][AddFailed => cache' = cache /\ newTodoTitle' = newTodoTitle]_vars
  /\ [][(addM' # addM /\ ~AddSucceeded) => cache' = cache]_vars

C24_Witness ==
  /\ addM.status = "success"
  /\ cache.has
  /\ Len(cache.data) = Len(ServerTodos) + 1
  /\ cache.data[Len(cache.data)].title = <<"a">>
  /\ newTodoTitle = <<>>

\* C25: the rollback of a failed optimistic update discards no write made
\* in the meantime: a todo that is in the ["todos"] cache when onError runs
\* and was not in it at onMutate (appended by a successful addTodo in
\* between) is still in the cache right after the rollback.
C25_RollbackKeepsAdded ==
  [][OnErrorStep =>
       \A i \in DOMAIN cache.data :
         (\A j \in DOMAIN upd.before.data : upd.before.data[j].id # cache.data[i].id) =>
           \E k \in DOMAIN cache'.data : cache'.data[k].id = cache.data[i].id]_vars

====
